---- MODULE Spec2Model ----
(***************************************************************************)
(* Model of UNMMSubsystem (NewMainMenu game feature): the registry of      *)
(* Main-Menu spots and the active-spot selection that MoveMainMenuSpot     *)
(* cycles through.                                                         *)
(***************************************************************************)
EXTENDS Integers, Sequences, FiniteSets, TLC

(* ----------------------------- bounds ---------------------------------- *)
\* how many spots are registered at a time, at most
MaxRegistered == 4

\* the largest magnitude of an Incrementer handed to MoveMainMenuSpot
MaxIncrementer == 4

\* nullptr as a spot handle; the spot components are numbered from 1
NullSpot == 0

\* TArray's INDEX_NONE
INDEX_NONE == 0 - 1

\* values of ELevelType that levels of the model use
LevelTypes == {"First", "Second"}

\* values MoveMainMenuSpot is called with by the menu (next / previous)
Incrementers == {0 - 1, 1}

\* values of the int32 parameter Incrementer, which the function accepts all
AnyIncrementers == (0 - MaxIncrementer)..MaxIncrementer

(* ------------------------ spot data (external) -------------------------- *)
\* FNMMCinematicRow of every spot: the level type it belongs to and the
\* index of its row in the cinematics table.  Spots 1 and 3 share a row of
\* one level type; spot 4 carries the same RowIndex on another level type;
\* the row indices of a level type are not contiguous.
SpotRows ==
  << [LevelType |-> "First",  RowIndex |-> 0],
     [LevelType |-> "First",  RowIndex |-> 2],
     [LevelType |-> "First",  RowIndex |-> 0],
     [LevelType |-> "Second", RowIndex |-> 0],
     [LevelType |-> "First",  RowIndex |-> 5] >>

\* handles of the spot components of the world
Spots == 1..Len(SpotRows)

GetCinematicRow(s) == SpotRows[s]

(* --------------------------- TArray helpers ----------------------------- *)
Contains(arr, x) == \E i \in 1..Len(arr) : arr[i] = x

\* an append that does not look for an equal element
AddUnique_Always(arr, x) == Append(arr, x)

\* TArray::AddUnique: appends only when no equal element is present
AddUnique(arr, x) == IF Contains(arr, x) THEN arr ELSE Append(arr, x)

\* TArray::IndexOfByKey: zero-based index of the first match or INDEX_NONE
IndexOfByKey(arr, x) ==
  IF Contains(arr, x)
    THEN (CHOOSE i \in 1..Len(arr) :
            arr[i] = x /\ \A j \in 1..(i - 1) : arr[j] # x) - 1
    ELSE INDEX_NONE

\* TArray::IsValidIndex on a zero-based index
IsValidIndex(arr, idx) == idx >= 0 /\ idx < Len(arr)

\* a removal that drops what follows the removed element as well
RemoveAtSwap_Truncate(arr, i) == SubSeq(arr, 1, i - 1)

\* TArray::RemoveAtSwap: the last element takes the place of the removed one
RemoveAtSwap(arr, i) ==
  [j \in 1..(Len(arr) - 1) |-> IF j = i THEN arr[Len(arr)] ELSE arr[j]]

\* TArray::RemoveSwap: removes every element equal to x, scanning upwards
RECURSIVE RemoveSwapFrom(_, _, _)
RemoveSwapFrom(arr, x, i) ==
  IF i > Len(arr) THEN arr
  ELSE IF arr[i] = x THEN RemoveSwapFrom(RemoveAtSwap(arr, i), x, i)
  ELSE RemoveSwapFrom(arr, x, i + 1)

RemoveSwap(arr, x) == RemoveSwapFrom(arr, x, 1)

\* C++ operator % on int32: the remainder truncates towards zero
Rem(a, n) == IF a >= 0 THEN a % n ELSE 0 - ((0 - a) % n)

(* ------------------- GetMainMenuSpotsByLevelType ------------------------ *)
\* a filter that lets the spots of every level type through
RECURSIVE CollectByLevelType_AnyLevel(_, _, _)
CollectByLevelType_AnyLevel(arr, lt, out) ==
  IF arr = << >> THEN out
  ELSE CollectByLevelType_AnyLevel(Tail(arr), lt,
         IF Head(arr) # NullSpot THEN AddUnique(out, Head(arr)) ELSE out)

\* a filter that keeps one spot of every row only
RECURSIVE CollectByLevelType_OnePerRow(_, _, _)
CollectByLevelType_OnePerRow(arr, lt, out) ==
  IF arr = << >> THEN out
  ELSE CollectByLevelType_OnePerRow(Tail(arr), lt,
         IF /\ Head(arr) # NullSpot
            /\ GetCinematicRow(Head(arr)).LevelType = lt
            /\ \A i \in 1..Len(out) :
                 GetCinematicRow(out[i]).RowIndex
                   # GetCinematicRow(Head(arr)).RowIndex
           THEN AddUnique(out, Head(arr))
           ELSE out)

\* the loop of lines 61-68: non-null spots of the level type, AddUnique'd
RECURSIVE CollectByLevelType(_, _, _)
CollectByLevelType(arr, lt, out) ==
  IF arr = << >> THEN out
  ELSE CollectByLevelType(Tail(arr), lt,
         IF Head(arr) # NullSpot /\ GetCinematicRow(Head(arr)).LevelType = lt
           THEN AddUnique(out, Head(arr))
           ELSE out)

\* a comparison the wrong way round
SortPredicate_Descending(a, b) ==
  GetCinematicRow(a).RowIndex > GetCinematicRow(b).RowIndex

\* the predicate handed to TArray::Sort
SortPredicate(a, b) == GetCinematicRow(a).RowIndex < GetCinematicRow(b).RowIndex

\* TArray::Sort is not a stable sort: every arrangement of the elements that
\* the predicate accepts as ordered is a possible outcome.  idxs is the set
\* of positions of arr not placed yet; a position may be placed next when
\* the predicate puts no other remaining element before it.
RECURSIVE SortFrom(_, _)
SortFrom(arr, idxs) ==
  IF idxs = {} THEN { << >> }
  ELSE UNION { { << arr[m] >> \o t : t \in SortFrom(arr, idxs \ {m}) } :
               m \in { i \in idxs :
                         \A j \in idxs : ~SortPredicate(arr[j], arr[i]) } }

SortOutcomes(arr) == SortFrom(arr, 1..Len(arr))

\* the possible values of OutSpots for an empty OutSpots passed in
GetMainMenuSpotsByLevelType(spots, lt) ==
  SortOutcomes(CollectByLevelType(spots, lt, << >>))

(* ---------------------- GetActiveMainMenuSpotComponent ------------------ *)
GetActiveMainMenuSpotComponent(spots, activeIdx) ==
  IF \E i \in 1..Len(spots) :
       spots[i] # NullSpot /\ GetCinematicRow(spots[i]).RowIndex = activeIdx
    THEN spots[CHOOSE i \in 1..Len(spots) :
                 /\ spots[i] # NullSpot
                 /\ GetCinematicRow(spots[i]).RowIndex = activeIdx
                 /\ \A j \in 1..(i - 1) :
                      ~(spots[j] # NullSpot
                        /\ GetCinematicRow(spots[j]).RowIndex = activeIdx)]
    ELSE NullSpot

(* --------------------------- MoveMainMenuSpot --------------------------- *)
\* lines 86-90: the row indices of the spots, AddUnique'd in their order
RECURSIVE ExtractRowIndices(_, _)
ExtractRowIndices(spots, out) ==
  IF spots = << >> THEN out
  ELSE ExtractRowIndices(Tail(spots),
                         AddUnique(out, GetCinematicRow(Head(spots)).RowIndex))

\* a position that stops at the ends instead of wrapping
NewSpotIndex_NoWrap(ActiveSpotPosition, Incrementer, Num) ==
  IF ActiveSpotPosition + Incrementer >= Num THEN Num - 1
  ELSE IF ActiveSpotPosition + Incrementer < 0 THEN 0
  ELSE ActiveSpotPosition + Incrementer

\* a remainder taken without adding the number of row indices first
NewSpotIndex_NoAddNum(ActiveSpotPosition, Incrementer, Num) ==
  Rem(ActiveSpotPosition + Incrementer, Num)

\* a position that is not reduced by the number of row indices
NewSpotIndex_NoRem(ActiveSpotPosition, Incrementer, Num) ==
  ActiveSpotPosition + Incrementer

\* line 108: the position of the spot to go to
NewSpotIndex(ActiveSpotPosition, Incrementer, Num) ==
  Rem(ActiveSpotPosition + Incrementer + Num, Num)

\* calls and assignments of lines 104, 109 and 115, in program order
StopMasterSequence(s) == [sig |-> "Stop", spot |-> s, idx |-> 0]
SetActiveIdx(i)       == [sig |-> "SetActive", spot |-> NullSpot, idx |-> i]
SetCinematicState(s)  == [sig |-> "IdlePart", spot |-> s, idx |-> 0]

\* the new spot started before the old one is stopped
MoveEffects_IdleFirst(CurrentSpot, NewRowIdx, NewSpot) ==
  << SetCinematicState(NewSpot),
     SetActiveIdx(NewRowIdx),
     StopMasterSequence(CurrentSpot) >>

MoveEffects(CurrentSpot, NewRowIdx, NewSpot) ==
  << StopMasterSequence(CurrentSpot),
     SetActiveIdx(NewRowIdx),
     SetCinematicState(NewSpot) >>

\* value of `divisor' when the remainder of line 108 was not evaluated
NotEvaluated == 0 - 1

\* a check that only asks for some row index to exist
FoundActiveIdx_NonEmpty(SpotRowIndices, activeIdx) == Len(SpotRowIndices) > 0

\* a check that was dropped
FoundActiveIdx_Always(SpotRowIndices, activeIdx) == TRUE

\* line 92: whether the active index is one of the row indices
FoundActiveIdx(SpotRowIndices, activeIdx) == Contains(SpotRowIndices, activeIdx)

\* The body of MoveMainMenuSpot for one outcome of the sort: what it returns,
\* the new active index, the calls it issued, the divisor of line 108 and
\* whether a checkf (or the range check of TArray::operator[]) fired.
MoveOutcome(CurrentLevelTypeSpots, activeIdx, Incrementer) ==
  LET SpotRowIndices     == ExtractRowIndices(CurrentLevelTypeSpots, << >>)
      Num                == Len(SpotRowIndices)
      bFoundActiveIdx    == FoundActiveIdx(SpotRowIndices, activeIdx)
      ActiveSpotPosition == IndexOfByKey(SpotRowIndices, activeIdx)
      Stopped(r) == [ret |-> NullSpot, active |-> activeIdx, signals |-> << >>,
                     divisor |-> NotEvaluated, fatal |-> r]
  IN
  IF ~bFoundActiveIdx THEN Stopped(FALSE)
  ELSE IF ~IsValidIndex(CurrentLevelTypeSpots, ActiveSpotPosition) THEN Stopped(TRUE)
  ELSE
    LET CurrentSpot == CurrentLevelTypeSpots[ActiveSpotPosition + 1] IN
    IF CurrentSpot = NullSpot THEN Stopped(TRUE)
    ELSE IF Num = 0
      THEN [ret |-> NullSpot, active |-> activeIdx,
            signals |-> SubSeq(MoveEffects(CurrentSpot, 0, NullSpot), 1, 1),
            divisor |-> 0, fatal |-> TRUE]
    ELSE
      LET NewIdx == NewSpotIndex(ActiveSpotPosition, Incrementer, Num) IN
      IF ~IsValidIndex(SpotRowIndices, NewIdx)
        THEN [ret |-> NullSpot, active |-> activeIdx,
              signals |-> SubSeq(MoveEffects(CurrentSpot, 0, NullSpot), 1, 1),
              divisor |-> Num, fatal |-> TRUE]
      ELSE
        LET NewRowIdx == SpotRowIndices[NewIdx + 1] IN
        IF ~IsValidIndex(CurrentLevelTypeSpots, NewIdx)
             \/ CurrentLevelTypeSpots[NewIdx + 1] = NullSpot
          THEN [ret |-> NullSpot, active |-> NewRowIdx,
                signals |-> SubSeq(MoveEffects(CurrentSpot, NewRowIdx, NullSpot), 1, 2),
                divisor |-> Num, fatal |-> TRUE]
        ELSE
          LET NewSpot == CurrentLevelTypeSpots[NewIdx + 1] IN
          [ret |-> NewSpot, active |-> NewRowIdx,
           signals |-> MoveEffects(CurrentSpot, NewRowIdx, NewSpot),
           divisor |-> Num, fatal |-> FALSE]

\* the spot components react to the calls in the order they are issued
RECURSIVE ApplySignals(_, _)
ApplySignals(cs, signals) ==
  IF signals = << >> THEN cs
  ELSE ApplySignals(
         IF Head(signals).sig = "Stop"
           THEN [cs EXCEPT ![Head(signals).spot] = "None"]
         ELSE IF Head(signals).sig = "IdlePart"
           THEN [cs EXCEPT ![Head(signals).spot] = "IdlePart"]
         ELSE cs,
         Tail(signals))

(* ------------------------------- state ---------------------------------- *)
VARIABLES
  MainMenuSpotsInternal,   \* TArray of the registered spots
  ActiveMainMenuSpotIdx,   \* row index of the selected spot
  CurrentLevelType,        \* what UMyBlueprintFunctionLibrary::GetLevelType returns
  CinematicState,          \* ENMMCinematicState of every spot component
  last,                    \* the last call: its arguments, result and effects
  before,                  \* summary of the call that preceded the last one
  observe                  \* what a behaviour follows besides the last call

vars == << MainMenuSpotsInternal, ActiveMainMenuSpotIdx, CurrentLevelType,
           CinematicState, last, before, observe >>

\* value of ActiveMainMenuSpotIdx after construction
DefaultActiveIdx == 0

NoCall == [op |-> "None", arg |-> 0, pre |-> 0, ret |-> 0]

\* The record of a call.  A behaviour that follows the cinematic state of the
\* spots keeps of a call only which one it was and whether it was fatal.
Call(op, arg, lt, ret, out, signals, divisor, fatal) ==
  IF observe = "cinematics"
    THEN [op |-> op, arg |-> 0, lt |-> "", pre |-> 0,
          ret |-> NullSpot, out |-> << >>, signals |-> << >>,
          divisor |-> NotEvaluated, fatal |-> fatal]
    ELSE [op |-> op, arg |-> arg, lt |-> lt, pre |-> ActiveMainMenuSpotIdx,
          ret |-> ret, out |-> out, signals |-> signals, divisor |-> divisor,
          fatal |-> fatal]

\* what is remembered of a call once the next one has been made
Summary(c) ==
  IF c.op \in {"Add", "Remove", "Move"}
    THEN [op |-> c.op, arg |-> c.arg, pre |-> c.pre, ret |-> c.ret]
    ELSE NoCall

\* Besides the last call a behaviour follows nothing, or the call before it
\* (before), or the reaction of the spot components to the calls
\* (CinematicState); the subsystem reads neither.
Remember == before' = IF observe = "history" THEN Summary(last) ELSE NoCall

InitCommon ==
  /\ MainMenuSpotsInternal = << >>
  /\ ActiveMainMenuSpotIdx = DefaultActiveIdx
  /\ CurrentLevelType \in LevelTypes
  /\ CinematicState = [s \in Spots |-> "None"]
  /\ last = [op |-> "None", arg |-> 0, lt |-> CurrentLevelType,
             pre |-> 0, ret |-> NullSpot, out |-> << >>,
             signals |-> << >>, divisor |-> NotEvaluated, fatal |-> FALSE]
  /\ before = NoCall

Init == InitCommon /\ observe = "last"

InitHistory == InitCommon /\ observe = "history"

InitCinematic == InitCommon /\ observe = "cinematics"

\* callers that hand any Incrementer to MoveMainMenuSpot
InitAnyIncrementer == InitCommon /\ observe = "incrementers"

(* ------------------------------ actions --------------------------------- *)
\* the process is gone once a checkf has fired
Running == ~last.fatal

\* an add that does not look at the handle it is given
AddNewMainMenuSpot_NoEnsure(s) ==
  /\ Running
  /\ \/ Contains(MainMenuSpotsInternal, s)
     \/ Len(MainMenuSpotsInternal) < MaxRegistered
  /\ MainMenuSpotsInternal' = AddUnique(MainMenuSpotsInternal, s)
  /\ last' = Call("Add", s, CurrentLevelType, NullSpot, << >>, << >>,
                  NotEvaluated, FALSE)
  /\ Remember
  /\ UNCHANGED << ActiveMainMenuSpotIdx, CurrentLevelType, CinematicState, observe >>

AddNewMainMenuSpot(s) ==
  /\ Running
  /\ \/ s = NullSpot
     \/ Contains(MainMenuSpotsInternal, s)
     \/ Len(MainMenuSpotsInternal) < MaxRegistered
  /\ MainMenuSpotsInternal' =
       IF s # NullSpot THEN AddUnique(MainMenuSpotsInternal, s)
                       ELSE MainMenuSpotsInternal
  /\ last' = Call("Add", s, CurrentLevelType, NullSpot, << >>, << >>,
                  NotEvaluated, FALSE)
  /\ Remember
  /\ UNCHANGED << ActiveMainMenuSpotIdx, CurrentLevelType, CinematicState, observe >>

\* a removal that puts the selection back to its default as well
RemoveMainMenuSpot_ResetsActive(s) ==
  /\ Running
  /\ MainMenuSpotsInternal' =
       IF s # NullSpot THEN RemoveSwap(MainMenuSpotsInternal, s)
                       ELSE MainMenuSpotsInternal
  /\ ActiveMainMenuSpotIdx' = DefaultActiveIdx
  /\ last' = Call("Remove", s, CurrentLevelType,
                  Len(MainMenuSpotsInternal) - Len(MainMenuSpotsInternal'),
                  << >>, << >>, NotEvaluated, FALSE)
  /\ Remember
  /\ UNCHANGED << CurrentLevelType, CinematicState, observe >>

RemoveMainMenuSpot(s) ==
  /\ Running
  /\ MainMenuSpotsInternal' =
       IF s # NullSpot THEN RemoveSwap(MainMenuSpotsInternal, s)
                       ELSE MainMenuSpotsInternal
  /\ last' = Call("Remove", s, CurrentLevelType,
                  Len(MainMenuSpotsInternal) - Len(MainMenuSpotsInternal'),
                  << >>, << >>, NotEvaluated, FALSE)
  /\ Remember
  /\ UNCHANGED << ActiveMainMenuSpotIdx, CurrentLevelType, CinematicState, observe >>

GetActive ==
  /\ Running
  /\ last' = Call("GetActive", 0, CurrentLevelType,
                  GetActiveMainMenuSpotComponent(MainMenuSpotsInternal,
                                                 ActiveMainMenuSpotIdx),
                  << >>, << >>, NotEvaluated, FALSE)
  /\ Remember
  /\ UNCHANGED << MainMenuSpotsInternal, ActiveMainMenuSpotIdx, CurrentLevelType,
                  CinematicState, observe >>

GetSpotsByLevelType(lt) ==
  /\ Running
  /\ \E OutSpots \in GetMainMenuSpotsByLevelType(MainMenuSpotsInternal, lt) :
       last' = Call("GetSpots", 0, lt, NullSpot, OutSpots, << >>,
                    NotEvaluated, FALSE)
  /\ Remember
  /\ UNCHANGED << MainMenuSpotsInternal, ActiveMainMenuSpotIdx, CurrentLevelType,
                  CinematicState, observe >>

MoveMainMenuSpot(Incrementer) ==
  /\ Running
  /\ \E CurrentLevelTypeSpots \in
          GetMainMenuSpotsByLevelType(MainMenuSpotsInternal, CurrentLevelType) :
       LET r == MoveOutcome(CurrentLevelTypeSpots, ActiveMainMenuSpotIdx, Incrementer)
       IN /\ ActiveMainMenuSpotIdx' = r.active
          /\ CinematicState' = IF observe = "cinematics"
                                 THEN ApplySignals(CinematicState, r.signals)
                                 ELSE CinematicState
          /\ last' = Call("Move", Incrementer, CurrentLevelType, r.ret, << >>,
                          r.signals, r.divisor, r.fatal)
  /\ Remember
  /\ UNCHANGED << MainMenuSpotsInternal, CurrentLevelType, observe >>

Deinitialize ==
  /\ Running
  /\ MainMenuSpotsInternal' = << >>
  /\ last' = Call("Deinitialize", 0, CurrentLevelType, NullSpot, << >>, << >>,
                  NotEvaluated, FALSE)
  /\ Remember
  /\ UNCHANGED << ActiveMainMenuSpotIdx, CurrentLevelType, CinematicState, observe >>

\* the game switches to another level
SetLevelType(lt) ==
  /\ Running
  /\ lt # CurrentLevelType
  /\ CurrentLevelType' = lt
  /\ last' = Call("SetLevelType", 0, lt, NullSpot, << >>, << >>,
                  NotEvaluated, FALSE)
  /\ Remember
  /\ UNCHANGED << MainMenuSpotsInternal, ActiveMainMenuSpotIdx, CinematicState,
                  observe >>

\* the Incrementers the callers of a behaviour hand to MoveMainMenuSpot
CalledWith ==
  IF observe = "incrementers" THEN AnyIncrementers ELSE Incrementers

Next ==
  \/ \E s \in Spots \cup {NullSpot} : AddNewMainMenuSpot(s)
  \/ \E s \in Spots \cup {NullSpot} : RemoveMainMenuSpot(s)
  \/ GetActive
  \/ \E lt \in LevelTypes : GetSpotsByLevelType(lt)
  \/ \E inc \in CalledWith : MoveMainMenuSpot(inc)
  \/ Deinitialize
  \/ \E lt \in LevelTypes : SetLevelType(lt)

Spec == Init /\ [][Next]_vars

SpecHistory == InitHistory /\ [][Next]_vars

SpecCinematic == InitCinematic /\ [][Next]_vars

SpecAnyIncrementer == InitAnyIncrementer /\ [][Next]_vars

TypeOK ==
  /\ \A i \in 1..Len(MainMenuSpotsInternal) : MainMenuSpotsInternal[i] \in Spots
  /\ CurrentLevelType \in LevelTypes
  /\ CinematicState \in [Spots -> {"None", "IdlePart"}]

(* ------------------------- vocabulary of the claims --------------------- *)
Registered == { MainMenuSpotsInternal[i] : i \in 1..Len(MainMenuSpotsInternal) }

\* the registered spots of a level type, and their row indices
SpotsOf(lt) == { s \in Registered : GetCinematicRow(s).LevelType = lt }
RowsOf(lt)  == { GetCinematicRow(s).RowIndex : s \in SpotsOf(lt) }

MaxOf(S) == CHOOSE x \in S : \A y \in S : y <= x
MinOf(S) == CHOOSE x \in S : \A y \in S : x <= y

(* ------------------------------- claims --------------------------------- *)
\* C1: when MoveMainMenuSpot is called and ActiveMainMenuSpotIdx is not a row
\* index of a registered spot of the current level type, it returns null,
\* leaves ActiveMainMenuSpotIdx and the registry unchanged and issues no call
\* to any spot.
C1_OutOfSyncIsNoOp ==
  [][ (last'.op = "Move" /\ ActiveMainMenuSpotIdx \notin RowsOf(CurrentLevelType))
        => /\ last'.ret = NullSpot
           /\ last'.fatal = FALSE
           /\ last'.signals = << >>
           /\ ActiveMainMenuSpotIdx' = ActiveMainMenuSpotIdx
           /\ MainMenuSpotsInternal' = MainMenuSpotsInternal ]_vars

C1_Witness ==
  /\ last.op = "Move"
  /\ RowsOf(CurrentLevelType) # {}
  /\ last.pre \notin RowsOf(CurrentLevelType)
  /\ last.ret = NullSpot
  /\ ActiveMainMenuSpotIdx = last.pre

\* C2: with a spot of the current level type registered, MoveMainMenuSpot(+1)
\* directly followed by MoveMainMenuSpot(-1) leaves ActiveMainMenuSpotIdx at
\* the value it had before the two calls.
C2_RoundTrip ==
  ( /\ before.op = "Move" /\ before.arg = 1
    /\ last.op = "Move" /\ last.arg = 0 - 1
    /\ RowsOf(CurrentLevelType) # {} )
  => ActiveMainMenuSpotIdx = before.pre

C2_Witness ==
  /\ before.op = "Move" /\ before.arg = 1 /\ before.ret # NullSpot
  /\ last.op = "Move" /\ last.arg = 0 - 1 /\ last.ret # NullSpot
  /\ last.pre # before.pre
  /\ ActiveMainMenuSpotIdx = before.pre

\* C3: a successful MoveMainMenuSpot walks the ascending row indices of the
\* current level type and wraps at both ends: +1 goes from the largest to the
\* smallest and otherwise to the next larger one, -1 goes from the smallest
\* to the largest and otherwise to the next smaller one.
C3_Wraps ==
  (last.op = "Move" /\ last.pre \in RowsOf(CurrentLevelType)) =>
    LET R == RowsOf(CurrentLevelType)
        a == last.pre
    IN /\ last.ret # NullSpot
       /\ last.arg = 1 =>
            ActiveMainMenuSpotIdx =
              IF a = MaxOf(R) THEN MinOf(R) ELSE MinOf({r \in R : r > a})
       /\ last.arg = 0 - 1 =>
            ActiveMainMenuSpotIdx =
              IF a = MinOf(R) THEN MaxOf(R) ELSE MaxOf({r \in R : r < a})

C3_Witness ==
  /\ last.op = "Move" /\ last.arg = 1
  /\ Cardinality(RowsOf(CurrentLevelType)) >= 3
  /\ \E lt \in LevelTypes : lt # CurrentLevelType /\ SpotsOf(lt) # {}
  /\ last.pre = MaxOf(RowsOf(CurrentLevelType))
  /\ ActiveMainMenuSpotIdx = MinOf(RowsOf(CurrentLevelType))
  /\ last.ret # NullSpot

\* C4: after RemoveMainMenuSpot(s) of the registered spot of the current level
\* type whose RowIndex is ActiveMainMenuSpotIdx, the next MoveMainMenuSpot
\* returns null and neither returns nor signals s.
C4_RemovedActiveThenMove ==
  ( /\ last.op = "Move"
    /\ before.op = "Remove" /\ before.arg # NullSpot /\ before.ret = 1
    /\ GetCinematicRow(before.arg).LevelType = CurrentLevelType
    /\ GetCinematicRow(before.arg).RowIndex = before.pre )
  => /\ last.ret = NullSpot
     /\ \A i \in 1..Len(last.signals) : last.signals[i].spot # before.arg

\* C5: after Deinitialize the registry is empty and ActiveMainMenuSpotIdx has
\* its default value, whatever calls preceded it.
C5_DeinitializeResets ==
  last.op = "Deinitialize" =>
    /\ MainMenuSpotsInternal = << >>
    /\ ActiveMainMenuSpotIdx = DefaultActiveIdx

\* C6: what GetMainMenuSpotsByLevelType returns is strictly ascending by
\* RowIndex and holds no spot twice, for every registry and level type.
C6_StrictlyAscending ==
  last.op = "GetSpots" =>
    \A i, j \in 1..Len(last.out) :
      i < j => /\ GetCinematicRow(last.out[i]).RowIndex
                    < GetCinematicRow(last.out[j]).RowIndex
               /\ last.out[i] # last.out[j]

\* C7: when no registered spot has the current level type, MoveMainMenuSpot
\* returns null, leaves ActiveMainMenuSpotIdx unchanged and does not evaluate
\* the remainder by the number of row indices.
C7_EmptyCandidates ==
  (last.op = "Move" /\ SpotsOf(CurrentLevelType) = {}) =>
    /\ last.ret = NullSpot
    /\ last.fatal = FALSE
    /\ last.divisor = NotEvaluated
    /\ last.signals = << >>
    /\ ActiveMainMenuSpotIdx = last.pre

C7_Witness ==
  /\ last.op = "Move"
  /\ SpotsOf(CurrentLevelType) = {}
  /\ Registered # {}
  /\ \E s \in Registered : GetCinematicRow(s).RowIndex = last.pre
  /\ last.ret = NullSpot
  /\ last.divisor = NotEvaluated

C9_OneIdlePerLevelType ==
  \A lt \in LevelTypes :
    Cardinality({ s \in SpotsOf(lt) : CinematicState[s] = "IdlePart" }) <= 1

\* C10: after a MoveMainMenuSpot that returns a spot, ActiveMainMenuSpotIdx is
\* the RowIndex of exactly one registered spot of the current level type.
C10_ActiveIsOneSpot ==
  (last.op = "Move" /\ last.ret # NullSpot) =>
    Cardinality({ s \in SpotsOf(CurrentLevelType) :
                    GetCinematicRow(s).RowIndex = ActiveMainMenuSpotIdx }) = 1

\* C11: MoveMainMenuSpot reads the level type at every call: the spot it
\* returns and the spots it signals are registered spots of the level type
\* current at that call, and when ActiveMainMenuSpotIdx (set by a move on
\* another level type) is no row index of the current level type it returns
\* null and leaves ActiveMainMenuSpotIdx unchanged.
C11_LevelTypeReadAfresh ==
  last.op = "Move" =>
    /\ last.lt = CurrentLevelType
    /\ last.ret # NullSpot =>
         /\ last.ret \in SpotsOf(CurrentLevelType)
         /\ last.pre \in RowsOf(CurrentLevelType)
         /\ ActiveMainMenuSpotIdx \in RowsOf(CurrentLevelType)
    /\ \A i \in 1..Len(last.signals) :
         last.signals[i].sig # "SetActive" =>
           last.signals[i].spot \in SpotsOf(CurrentLevelType)
    /\ last.pre \notin RowsOf(CurrentLevelType) =>
         /\ last.ret = NullSpot
         /\ last.fatal = FALSE
         /\ ActiveMainMenuSpotIdx = last.pre

\* ActiveMainMenuSpotIdx differs from its default and is a row index of a
\* registered spot of another level type only: an earlier move on that level
\* type assigned it, the level was switched, and the move finds spots of the
\* new level type only.
C11_Witness ==
  /\ last.op = "Move" /\ last.arg = 1
  /\ last.pre # DefaultActiveIdx
  /\ SpotsOf(CurrentLevelType) # {}
  /\ last.pre \notin RowsOf(CurrentLevelType)
  /\ \E lt \in LevelTypes : lt # CurrentLevelType /\ last.pre \in RowsOf(lt)
  /\ last.ret = NullSpot
  /\ ActiveMainMenuSpotIdx = last.pre

\* C12: with MoveMainMenuSpot called with +1 and -1 only, no call reaches a
\* checkf or an out-of-range array access, whatever spots are registered,
\* whatever ActiveMainMenuSpotIdx and the level type are; add and remove of
\* a null handle return and the subsystem goes on.
C12_NeverFatal ==
  /\ last.fatal = FALSE
  /\ (before.op \in {"Add", "Remove"} /\ before.arg = NullSpot) => Running

\* a null handle was passed to add; then a move went below the first row
\* index on a level type that has more spots than row indices
C12_Witness ==
  /\ before.op = "Add" /\ before.arg = NullSpot
  /\ last.op = "Move" /\ last.arg = 0 - 1
  /\ Cardinality(SpotsOf(CurrentLevelType))
       > Cardinality(RowsOf(CurrentLevelType))
  /\ Cardinality(RowsOf(CurrentLevelType)) >= 2
  /\ last.pre = MinOf(RowsOf(CurrentLevelType))
  /\ last.ret # NullSpot
  /\ last.fatal = FALSE

\* C13: AddNewMainMenuSpot of a null handle, or of a spot that is registered
\* already (as it is right after an add of the same spot), leaves the
\* registry as it is; an add of any other spot appends that spot and changes
\* nothing else of the registry.
C13_AddIdempotent ==
  [][ last'.op = "Add" =>
        MainMenuSpotsInternal' =
          IF last'.arg = NullSpot \/ last'.arg \in Registered
            THEN MainMenuSpotsInternal
            ELSE Append(MainMenuSpotsInternal, last'.arg) ]_vars

\* the same spot was added twice in a row, next to other registered spots
C13_Witness ==
  /\ before.op = "Add" /\ last.op = "Add"
  /\ before.arg = last.arg /\ last.arg # NullSpot
  /\ Cardinality({ i \in 1..Len(MainMenuSpotsInternal) :
                     MainMenuSpotsInternal[i] = last.arg }) = 1
  /\ MainMenuSpotsInternal[Len(MainMenuSpotsInternal)] = last.arg
  /\ Len(MainMenuSpotsInternal) >= 2

\* C14: RemoveMainMenuSpot(s) takes s, and no other spot, out of the set of
\* registered spots; when s is null or not registered (as it is right after a
\* remove of the same spot) the registry stays as it is.
C14_RemoveIdempotent ==
  [][ last'.op = "Remove" =>
        /\ Registered' = Registered \ {last'.arg}
        /\ Len(MainMenuSpotsInternal') = Cardinality(Registered')
        /\ last'.arg \notin Registered =>
             MainMenuSpotsInternal' = MainMenuSpotsInternal ]_vars

\* the same spot was removed twice in a row: the first call took it out of
\* the registry, the second found nothing to remove; other spots stay
C14_Witness ==
  /\ before.op = "Remove" /\ last.op = "Remove"
  /\ before.arg = last.arg /\ last.arg # NullSpot
  /\ before.ret = 1 /\ last.ret = 0
  /\ last.arg \notin Registered
  /\ Cardinality(Registered) >= 2

\* C15: when exactly one registered spot has the current level type and its
\* RowIndex is ActiveMainMenuSpotIdx, MoveMainMenuSpot(+1) and
\* MoveMainMenuSpot(-1) return that spot and leave ActiveMainMenuSpotIdx
\* unchanged.
C15_SingleCandidate ==
  ( /\ last.op = "Move"
    /\ Cardinality(SpotsOf(CurrentLevelType)) = 1
    /\ RowsOf(CurrentLevelType) = {last.pre} )
  => /\ SpotsOf(CurrentLevelType) = {last.ret}
     /\ ActiveMainMenuSpotIdx = last.pre
     /\ last.fatal = FALSE

\* the only spot of the level type sits on a row other than the default one,
\* spots of another level type are registered, the move went backwards
C15_Witness ==
  /\ last.op = "Move" /\ last.arg = 0 - 1
  /\ Cardinality(SpotsOf(CurrentLevelType)) = 1
  /\ RowsOf(CurrentLevelType) = {last.pre}
  /\ last.pre # DefaultActiveIdx
  /\ \E lt \in LevelTypes : lt # CurrentLevelType /\ SpotsOf(lt) # {}
  /\ SpotsOf(CurrentLevelType) = {last.ret}
  /\ ActiveMainMenuSpotIdx = last.pre

\* C16: AddNewMainMenuSpot, RemoveMainMenuSpot, GetMainMenuSpotsByLevelType
\* and GetActiveMainMenuSpotComponent leave ActiveMainMenuSpotIdx as it is,
\* in every state.
C16_OnlyMoveAssignsActive ==
  [][ last'.op \in {"Add", "Remove", "GetSpots", "GetActive"} =>
        ActiveMainMenuSpotIdx' = ActiveMainMenuSpotIdx ]_vars

\* the spot the selection stands on was removed and the selection, which is
\* not the default one, is still its row index
C16_Witness ==
  /\ last.op = "Remove" /\ last.arg # NullSpot /\ last.ret = 1
  /\ GetCinematicRow(last.arg).RowIndex = last.pre
  /\ GetCinematicRow(last.arg).LevelType = CurrentLevelType
  /\ last.pre # DefaultActiveIdx
  /\ ActiveMainMenuSpotIdx = last.pre
  /\ ActiveMainMenuSpotIdx \notin RowsOf(CurrentLevelType)

\* C17: GetMainMenuSpotsByLevelType(LevelType) returns the registered spots
\* whose level type is LevelType, all of them and no other spot, after any
\* calls of add and remove.
C17_ExactlyTheLevelType ==
  last.op = "GetSpots" =>
    { last.out[i] : i \in 1..Len(last.out) } = SpotsOf(last.lt)

\* the level type asked for has two spots on one row and a spot on another
\* row, and a spot of another level type is registered as well
C17_Witness ==
  /\ last.op = "GetSpots"
  /\ Len(last.out) >= 3
  /\ Cardinality(RowsOf(last.lt)) < Cardinality(SpotsOf(last.lt))
  /\ Registered \ SpotsOf(last.lt) # {}
  /\ { last.out[i] : i \in 1..Len(last.out) } = SpotsOf(last.lt)

\* C18: in a MoveMainMenuSpot that returns a spot, the spot that is stopped
\* has the RowIndex ActiveMainMenuSpotIdx had before the call, the spot that
\* is put into the idle part and returned has the RowIndex
\* ActiveMainMenuSpotIdx has after it, and the current level type has as many
\* candidate spots as row indices.
C18_SamePosition ==
  (last.op = "Move" /\ last.ret # NullSpot) =>
    /\ GetCinematicRow(last.signals[1].spot).RowIndex = last.pre
    /\ GetCinematicRow(last.ret).RowIndex = ActiveMainMenuSpotIdx
    /\ Cardinality(SpotsOf(CurrentLevelType))
         = Cardinality(RowsOf(CurrentLevelType))

\* C19: GetActiveMainMenuSpotComponent called right after a
\* MoveMainMenuSpot that returned a spot returns that spot, whatever spots
\* are registered and in whatever order they were added and removed.
C19_GetActiveIsMoved ==
  (before.op = "Move" /\ before.ret # NullSpot /\ last.op = "GetActive")
    => last.ret = before.ret

\* C20: for every Incrementer MoveMainMenuSpot is called with, also one
\* below minus the number of row indices or above it, when
\* ActiveMainMenuSpotIdx is a row index of the current level type the
\* position (pos + Incrementer + Num) % Num of line 108 is at least 0 and
\* less than Num, and the array accesses that follow are in bounds.
C20_NewPositionInBounds ==
  LET CurrentLevelTypeSpots ==
        CHOOSE c \in GetMainMenuSpotsByLevelType(MainMenuSpotsInternal,
                                                 CurrentLevelType) : TRUE
      SpotRowIndices == ExtractRowIndices(CurrentLevelTypeSpots, << >>)
  IN (last.op = "Move" /\ Contains(SpotRowIndices, last.pre)) =>
       /\ IsValidIndex(SpotRowIndices,
                       NewSpotIndex(IndexOfByKey(SpotRowIndices, last.pre),
                                    last.arg, Len(SpotRowIndices)))
       /\ last.fatal = FALSE

\* C21: after any calls of add, remove and MoveMainMenuSpot, calls with a
\* null handle among them, the registry holds no null handle and no handle
\* twice, and a MoveMainMenuSpot leaves the registry as it was.
C21_RegistryWellFormed ==
  /\ [](/\ \A i \in 1..Len(MainMenuSpotsInternal) :
              MainMenuSpotsInternal[i] # NullSpot
        /\ \A i, j \in 1..Len(MainMenuSpotsInternal) :
              i # j => MainMenuSpotsInternal[i] # MainMenuSpotsInternal[j])
  /\ [][ last'.op = "Move" =>
           MainMenuSpotsInternal' = MainMenuSpotsInternal ]_vars

\* a null handle was passed to remove while the registry is full, spots
\* sharing a row among them; the move that followed went to another row
C21_Witness ==
  /\ before.op = "Remove" /\ before.arg = NullSpot
  /\ last.op = "Move" /\ last.ret # NullSpot
  /\ ActiveMainMenuSpotIdx # last.pre
  /\ Len(MainMenuSpotsInternal) = MaxRegistered
  /\ Cardinality(Registered) = MaxRegistered
  /\ Cardinality(SpotsOf(CurrentLevelType))
       > Cardinality(RowsOf(CurrentLevelType))

====
